---------------------------- MODULE Spec2Model ----------------------------
(***************************************************************************)
(* ErrorRecordBook: a wrong-question notebook.  The model covers the App   *)
(* component (views, capture, delete, export, import, clear), the AI       *)
(* analysis client (analyzeQuestionImage, sanitizeMermaid) and the record  *)
(* store behind ./services/db.                                             *)
(*                                                                         *)
(* JavaScript values are encoded as follows.  An optional value is a       *)
(* sequence of length 0 (undefined / absent key) or 1 (the value).  A JSON *)
(* object is a record with one optional entry per key.  Strings are TLA+   *)
(* strings, "" being the empty (falsy) string; mermaid code is a sequence  *)
(* of tokens so that the fence handling of sanitizeMermaid is computed.    *)
(***************************************************************************)
EXTENDS Integers, Sequences, FiniteSets, TLC

\* ---------------------------------------------------------------- bounds
\* Capacity of the storage medium: a write that would need a key above
\* MaxId fails with StorageFault (quota exceeded).
MaxId == 2
\* Largest value of the wall clock Date.now().
MaxTime == 2
\* Most loadQuestions calls in flight at once.
MaxLoads == 2
\* The turns of one chat that are followed.
MaxTurns == 2

\* ------------------------------------------------------- optional values
None == <<>>
Some(x) == <<x>>
IsDef(o) == Len(o) = 1
\* JavaScript truthiness of an optional string: defined and not "".
TruthyStr(o) == IsDef(o) /\ o[1] # ""
\* JavaScript truthiness of an optional number: defined and not 0.
TruthyNum(o) == IsDef(o) /\ o[1] # 0

\* ----------------------------------------------------------- the subjects
SUBJECTS == {"Chinese", "Math", "English", "Physics"}

\* ------------------------------------------------------------ mermaid code
\* The token for a run of three backticks.
Fence == "FENCE"
MermaidTag == "mermaid"
OtherTag == "js"
Newline == "\n"
IsWhitespace(t) == t \in {Newline, " "}

RECURSIVE TrimStart(_)
TrimStart(s) ==
    IF s # <<>> /\ IsWhitespace(Head(s)) THEN TrimStart(Tail(s)) ELSE s

RECURSIVE TrimEnd(_)
TrimEnd(s) ==
    IF s # <<>> /\ IsWhitespace(s[Len(s)])
    THEN TrimEnd(SubSeq(s, 1, Len(s) - 1))
    ELSE s

\* String.prototype.trim
Trim(s) == TrimEnd(TrimStart(s))

\* replace(/FENCE mermaid/i, "") with FENCE the three backticks: the first
\* fence directly followed by the word mermaid (in either case) is removed
\* together with the word.
IsMermaidWord(t) == t \in {MermaidTag, "MERMAID"}
ReplaceFenceMermaid(s) ==
    LET hits == {i \in 1..(Len(s) - 1) : s[i] = Fence /\ IsMermaidWord(s[i + 1])}
    IN  IF hits = {} THEN s
        ELSE LET i == CHOOSE j \in hits : \A k \in hits : j <= k
             IN  SubSeq(s, 1, i - 1) \o SubSeq(s, i + 2, Len(s))

\* s.replace(/FENCE/g, ""): every fence is removed.
ReplaceAllFences(s) == SelectSeq(s, LAMBDA t : t # Fence)

\* A faulty variant: only the test for the fence looks at the trimmed
\* text, code without a fence is returned as it came.
sanitizeMermaidUntrimmed(code) ==
    IF ~IsDef(code) \/ code[1] = <<>> THEN <<>>
    ELSE LET cleaned == Trim(code[1])
         IN  IF cleaned # <<>> /\ cleaned[1] = Fence
             THEN Trim(ReplaceAllFences(ReplaceFenceMermaid(cleaned)))
             ELSE code[1]

sanitizeMermaid(code) ==
    IF ~IsDef(code) \/ code[1] = <<>> THEN <<>>
    ELSE LET cleaned == Trim(code[1])
         IN  IF cleaned # <<>> /\ cleaned[1] = Fence
             THEN Trim(ReplaceAllFences(ReplaceFenceMermaid(cleaned)))
             ELSE cleaned

\* --------------------------------------------------- analysis candidates
\* The keys a candidate object may carry: the canonical keys of
\* AIAnalysisResult and the keys of the older flat shape.
EmptyObject ==
    [title |-> None, tags |-> None, questionText |-> None,
     comparison |-> None, isCorrect |-> None, solution |-> None,
     errorRoot |-> None, knowledgeMap |-> None, logicEngine |-> None,
     masteryLevel |-> None, variationQuestion |-> None,
     studentAnswer |-> None, errorAnalysis |-> None,
     knowledgePoints |-> None, examinerIntent |-> None, difficulty |-> None]

EmptyLogicEngine ==
    [mermaidCode |-> None, excalidrawJson |-> None,
     difficulty |-> None, examinerIntent |-> None]

FencedMermaid == <<Fence, MermaidTag, Newline, "A-->B", Newline, Fence>>
PlainMermaid == <<"A-->B">>

Comparison(a) ==
    [studentAnswer |-> Some(a), standardAnswer |-> Some("std"),
     gapAnalysis |-> Some("gap")]
ErrorRoot == [category |-> Some("Careless"), detailedReason |-> Some("why")]
KnowledgeMap(p) == [primaryPoint |-> Some(p), relatedPoints |-> Some(<<"rel">>)]
LogicEngine(m, d) ==
    [mermaidCode |-> m, excalidrawJson |-> None,
     difficulty |-> d, examinerIntent |-> Some("intent")]

\* A candidate of the canonical shape (every required key of the response
\* schema present).
CanonicalCandidate(p, m) ==
    [EmptyObject EXCEPT
        !.title = Some("title"), !.tags = Some(<<"tag">>),
        !.questionText = Some("q"), !.comparison = Some(Comparison("ans")),
        !.isCorrect = Some(FALSE), !.solution = Some("sol"),
        !.errorRoot = Some(ErrorRoot), !.knowledgeMap = Some(KnowledgeMap(p)),
        !.logicEngine = Some(LogicEngine(Some(m), Some(4))),
        !.masteryLevel = Some("weak")]

\* A candidate of the older flat shape (first interface of services/ai).
LegacyCandidate ==
    [EmptyObject EXCEPT
        !.title = Some("old"), !.tags = Some(<<"tag">>),
        !.questionText = Some("q"), !.studentAnswer = Some("ans"),
        !.isCorrect = Some(FALSE), !.solution = Some("sol"),
        !.errorAnalysis = Some("why"),
        !.knowledgePoints = Some(<<"Trig identities", "Law of cosines">>),
        !.examinerIntent = Some("intent"), !.masteryLevel = Some("weak")]

\* ------------------------------------------------------ analyzeQuestionImage
\* The text of the model's response after JSON.parse(response.text || "[]"):
\* kind "array" with its elements (None is a JSON null element), "object"
\* with the object, "null", "primitive" (a number, string or boolean) and
\* "unparseable" (JSON.parse throws).  An empty or missing text is replaced
\* by "[]" and parses as the empty array.
ArrayPayload(items) == [kind |-> "array", items |-> items, value |-> None]
ObjectPayload(o) == [kind |-> "object", items |-> <<>>, value |-> Some(o)]
NullPayload == [kind |-> "null", items |-> <<>>, value |-> None]
PrimitivePayload == [kind |-> "primitive", items |-> <<>>, value |-> None]
UnparseablePayload == [kind |-> "unparseable", items |-> <<>>, value |-> None]
EmptyTextPayload == ArrayPayload(<<>>)

\* analyses: Array.isArray(parsed) ? parsed
\*           : (parsed && typeof parsed === 'object' ? [parsed] : [])
Candidates(parsed) ==
    IF parsed.kind = "array" THEN parsed.items
    ELSE IF parsed.kind = "object" THEN <<parsed.value>>
    ELSE <<>>

\* A faulty variant of the map: logicEngine is built from the mermaid code
\* alone, the spread of item.logicEngine is forgotten.
SanitizeItemWithoutSpread(item) ==
    LET le == IF IsDef(item.logicEngine) THEN item.logicEngine[1]
              ELSE EmptyLogicEngine
    IN  [item EXCEPT !.logicEngine =
            Some([EmptyLogicEngine EXCEPT
                    !.mermaidCode = Some(sanitizeMermaid(le.mermaidCode))])]

\* One element of analyses.map(...): the spread of the item with logicEngine
\* rebuilt around the sanitized mermaid code.
SanitizeItem(item) ==
    LET le == IF IsDef(item.logicEngine) THEN item.logicEngine[1]
              ELSE EmptyLogicEngine
    IN  [item EXCEPT !.logicEngine =
            Some([le EXCEPT !.mermaidCode = Some(sanitizeMermaid(le.mermaidCode))])]

\* The outcome of analyzeQuestionImage once the remote call has answered:
\* threw is TRUE when JSON.parse throws or when an element is null
\* (item.logicEngine of null is a TypeError).
analyzeQuestionImage(parsed) ==
    LET cands == Candidates(parsed)
    IN  IF parsed.kind = "unparseable"
           \/ \E i \in 1..Len(cands) : ~IsDef(cands[i])
        THEN [threw |-> TRUE, analyses |-> <<>>]
        ELSE [threw |-> FALSE,
              analyses |-> IF cands = <<>> THEN <<>>
                           ELSE [i \in 1..Len(cands) |-> SanitizeItem(cands[i][1])]]

\* ---------------------------------------------------------- WrongQuestion
\* A record as App builds it.  undefinedKeys are the keys that are present
\* with the value undefined (tags: analysis.tags when the analysis has no
\* tags); the structured clone of the store keeps them, JSON drops them.
PrimaryPointOf(analysis) ==
    IF IsDef(analysis.knowledgeMap) THEN analysis.knowledgeMap[1].primaryPoint
    ELSE None
FirstTagOf(analysis) ==
    IF IsDef(analysis.tags) /\ analysis.tags[1] # <<>>
    THEN Some(analysis.tags[1][1])
    ELSE None
\* (knowledgeMap && knowledgeMap.primaryPoint) || (tags && tags[0]) || title
autoTitle(analysis) ==
    IF TruthyStr(PrimaryPointOf(analysis)) THEN PrimaryPointOf(analysis)
    ELSE IF TruthyStr(FirstTagOf(analysis)) THEN FirstTagOf(analysis)
    ELSE analysis.title
Untitled == "untitled"
newQuestion(subject, image, analysis, time) ==
    [id |-> None,
     subject |-> subject,
     title |-> IF TruthyStr(autoTitle(analysis)) THEN autoTitle(analysis)[1]
               ELSE Untitled,
     tags |-> analysis.tags,
     image |-> image,
     analysis |-> analysis,
     createdAt |-> time,
     undefinedKeys |-> IF IsDef(analysis.tags) THEN {} ELSE {"tags"}]

\* ------------------------------------------------------------- rendering
\* What the views show of a record q.
Uncategorized == "uncategorized"
\* (analysis as any).knowledgePoints?.[0]
FirstKnowledgePointOf(analysis) ==
    IF IsDef(analysis.knowledgePoints) /\ analysis.knowledgePoints[1] # <<>>
    THEN Some(analysis.knowledgePoints[1][1])
    ELSE None
\* analysis.logicEngine?.difficulty
LogicDifficultyOf(analysis) ==
    IF IsDef(analysis.logicEngine) THEN analysis.logicEngine[1].difficulty
    ELSE None
\* The list item of the subject view:
\* q.analysis.knowledgeMap?.primaryPoint || uncategorized
ListPrimaryPoint(q) ==
    IF TruthyStr(PrimaryPointOf(q.analysis)) THEN PrimaryPointOf(q.analysis)[1]
    ELSE Uncategorized
\* The detail view:
\* knowledgeMap?.primaryPoint || knowledgePoints?.[0] || uncategorized
DetailPrimaryPoint(q) ==
    IF TruthyStr(PrimaryPointOf(q.analysis)) THEN PrimaryPointOf(q.analysis)[1]
    ELSE IF TruthyStr(FirstKnowledgePointOf(q.analysis))
         THEN FirstKnowledgePointOf(q.analysis)[1]
         ELSE Uncategorized
\* buildShareHtml: question.analysis.knowledgeMap?.primaryPoint || uncategorized
SharePrimaryPoint(q) ==
    IF TruthyStr(PrimaryPointOf(q.analysis)) THEN PrimaryPointOf(q.analysis)[1]
    ELSE Uncategorized
\* The detail view: the stars i of 0..4 that are filled, where
\* i < (logicEngine?.difficulty || difficulty || 3).
DetailStars(q) ==
    LET d == IF TruthyNum(LogicDifficultyOf(q.analysis))
             THEN LogicDifficultyOf(q.analysis)[1]
             ELSE IF TruthyNum(q.analysis.difficulty)
                  THEN q.analysis.difficulty[1]
                  ELSE 3
    IN  Cardinality({i \in 0..4 : i < d})
\* buildShareHtml: difficulty is logicEngine?.difficulty || 0; the dots are
\* drawn when it is truthy, dot i of 1..5 is on when i <= difficulty.
ShareDots(q) ==
    LET d == IF TruthyNum(LogicDifficultyOf(q.analysis))
             THEN LogicDifficultyOf(q.analysis)[1]
             ELSE 0
    IN  IF d = 0 THEN 0 ELSE Cardinality({i \in 1..5 : i <= d})

\* ------------------------------------------------------------------ JSON
\* JSON.stringify of an array of records followed by JSON.parse of the
\* text: a key whose value is undefined is not written, so it is absent
\* after the round trip; every other value is kept.
\* A faulty variant: the export leaves the images out of the file.
JSONObjectWithoutImage(rec) == [rec EXCEPT !.undefinedKeys = {}, !.image = ""]
JSONObject(rec) == [rec EXCEPT !.undefinedKeys = {}]
JSONstringify(all) ==
    [kind |-> "array",
     items |-> IF all = <<>> THEN <<>>
               ELSE [i \in 1..Len(all) |-> JSONObject(all[i])]]
\* Files that are no array of records: a text JSON.parse rejects, a single
\* object, a number, null.
UnparseableFile == [kind |-> "unparseable", items |-> <<>>]
ObjectFile(rec) == [kind |-> "object", items |-> <<rec>>]
NumberFile == [kind |-> "number", items |-> <<>>]
NullFile == [kind |-> "null", items |-> <<>>]
JSONparseThrows(text) == text.kind = "unparseable"

\* ------------------------------------------------------- the record store
\* services/db: the object store questions keyed by the auto-increment id,
\* with the secondary index on subject.  db = [rows, bySubject, keyGen].
Restrict(f, S) == [x \in S |-> f[x]]
EmptyDb ==
    [rows |-> Restrict(<<>>, {}),
     bySubject |-> [s \in SUBJECTS |-> {}],
     keyGen |-> 1]

Min(S) == CHOOSE x \in S : \A y \in S : x <= y
RECURSIVE InKeyOrder(_, _)
\* The rows of the keys S in ascending key order.
InKeyOrder(rows, S) ==
    IF S = {} THEN <<>>
    ELSE <<rows[Min(S)]>> \o InKeyOrder(rows, S \ {Min(S)})

\* The medium has room for the keys 1..MaxId.
StoreFull(d) == d.keyGen > MaxId

\* A faulty variant of save: the record is put under the highest key in
\* use, in place of the record that is there.
saveQuestionOverLast(d, rec) ==
    LET key == IF DOMAIN d.rows = {} THEN d.keyGen
               ELSE CHOOSE x \in DOMAIN d.rows : \A y \in DOMAIN d.rows : y <= x
    IN  [rows |-> (key :> [rec EXCEPT !.id = Some(key)]) @@ d.rows,
         bySubject |-> [s \in SUBJECTS |->
                           IF s = rec.subject THEN d.bySubject[s] \cup {key}
                           ELSE d.bySubject[s] \ {key}],
         keyGen |-> d.keyGen + 1]

\* save: the record is stored under the next key, which is then consumed.
saveQuestion(d, rec) ==
    LET key == d.keyGen
    IN  [rows |-> (key :> [rec EXCEPT !.id = Some(key)]) @@ d.rows,
         bySubject |-> [d.bySubject EXCEPT ![rec.subject] = @ \cup {key}],
         keyGen |-> key + 1]
savedId(d) == d.keyGen

\* A faulty variant of the query by subject: the index is opened without
\* the key range, so every record is returned.
getQuestionsBySubjectUnbounded(d, subject) == InKeyOrder(d.rows, DOMAIN d.rows)

getAllQuestions(d) == InKeyOrder(d.rows, DOMAIN d.rows)
\* Served by the index on subject.
getQuestionsBySubject(d, subject) == InKeyOrder(d.rows, d.bySubject[subject])

\* A faulty variant of delete: the key range reaches up to id instead of
\* holding id alone.
deleteQuestionUpTo(d, id) ==
    LET rest == {k \in DOMAIN d.rows : k > id}
    IN  [rows |-> Restrict(d.rows, rest),
         bySubject |-> [s \in SUBJECTS |-> d.bySubject[s] \cap rest],
         keyGen |-> d.keyGen]

\* A faulty variant of delete: the next key is recomputed from the highest
\* key that is left.
deleteQuestionRewinding(d, id) ==
    LET rest == DOMAIN d.rows \ {id}
    IN  [rows |-> Restrict(d.rows, rest),
         bySubject |-> [s \in SUBJECTS |-> d.bySubject[s] \ {id}],
         keyGen |-> IF rest = {} THEN 1
                    ELSE 1 + CHOOSE x \in rest : \A y \in rest : y <= x]

deleteQuestion(d, id) ==
    [rows |-> Restrict(d.rows, DOMAIN d.rows \ {id}),
     bySubject |-> [s \in SUBJECTS |-> d.bySubject[s] \ {id}],
     keyGen |-> d.keyGen]

\* A faulty variant of clear: the cursor that walks the records stops one
\* short, so the record with the highest key stays.
clearAllQuestionsKeepingLast(d, reset) ==
    LET rest == {k \in DOMAIN d.rows : \A y \in DOMAIN d.rows : y <= k}
    IN  [rows |-> Restrict(d.rows, rest),
         bySubject |-> [s \in SUBJECTS |-> d.bySubject[s] \cap rest],
         keyGen |-> IF reset THEN 1 ELSE d.keyGen]

\* clear: every record goes; whether the key generator restarts is left to
\* the storage engine (reset).
clearAllQuestions(d, reset) ==
    [rows |-> Restrict(d.rows, {}),
     bySubject |-> [s \in SUBJECTS |-> {}],
     keyGen |-> IF reset THEN 1 ELSE d.keyGen]

\* A faulty variant of importMany: a record that carries an id is put under
\* that id.
importOneKeepingId(d, rec) ==
    IF IsDef(rec.id)
    THEN [rows |-> (rec.id[1] :> rec) @@ d.rows,
          bySubject |-> [s \in SUBJECTS |->
                            IF s = rec.subject THEN d.bySubject[s] \cup {rec.id[1]}
                            ELSE d.bySubject[s] \ {rec.id[1]}],
          keyGen |-> IF rec.id[1] >= d.keyGen THEN rec.id[1] + 1 ELSE d.keyGen]
    ELSE saveQuestion(d, rec)

\* importMany, one record: the id of the input is dropped and the rest is
\* stored as a new record.
importOne(d, rec) == saveQuestion(d, [rec EXCEPT !.id = None])
\* importMany is given something that is no sequence.
ImportRejects(file) == file.kind # "array"

\* ------------------------------------------------------ createdAt ordering
\* A faulty variant of loadQuestions: the list is shown in the order in
\* which the store returned it.
AsReturned(data) == data

RECURSIVE InsertByCreatedAt(_, _)
\* r goes behind every element that is at least as new (the sort is stable).
InsertByCreatedAt(sorted, r) ==
    IF sorted = <<>> THEN <<r>>
    ELSE IF Head(sorted).createdAt >= r.createdAt
         THEN <<Head(sorted)>> \o InsertByCreatedAt(Tail(sorted), r)
         ELSE <<r>> \o sorted
RECURSIVE SortNewestFirst(_)
\* data.sort((a, b) => b.createdAt - a.createdAt)
SortNewestFirst(data) ==
    IF data = <<>> THEN <<>>
    ELSE InsertByCreatedAt(SortNewestFirst(SubSeq(data, 1, Len(data) - 1)),
                           data[Len(data)])

\* ------------------------------------------------------------------ state
VARIABLES
    db,                 \* the record store
    now,                \* Date.now()
    currentView, selectedSubject, questions, selectedQuestion,
    isAnalyzing, tempImage, isActionSheetOpen,
    alert,              \* the alert() or confirm() dialog on screen, or the
                        \* answer confirm() has just returned; "none" otherwise
    uploading,          \* handleFileUpload: "idle", "busy" (awaiting the image), "alert"
    capture,            \* startAnalysis: where it is and what it holds
    loads,              \* loadQuestions calls in flight (their subject)
    deleting,           \* handleDelete awaiting deleteQuestion
    clearing,           \* the clear-all handler: "idle", "busy", "alert"
    exporting,          \* exportData awaiting getAllQuestions
    backup,             \* the file exportData last downloaded, and what it was made of
    importing,          \* importData: reading, then importQuestions
    searchQuery,        \* the text of the search box, character by character
    selectedTag,        \* the tag chip that is selected, if any
    messages, input, isLoading,     \* the component state of AIChat
    sending,            \* handleSend awaiting generateContent: its user message
    issued              \* since the last clear: the id save returned last (0 when
                        \* none), whether a save came after the record with
                        \* the highest id had been deleted, and whether a delete
                        \* of an id that was not in the store has answered

storeVars == <<db, issued>>
viewVars == <<currentView, selectedSubject, questions, selectedQuestion>>
uploadVars == <<isAnalyzing, tempImage, isActionSheetOpen, uploading, capture>>
taskVars == <<loads, deleting, clearing, exporting, backup, importing>>
browseVars == <<searchQuery, selectedTag>>
chatVars == <<messages, input, isLoading, sending>>
vars == <<db, now, currentView, selectedSubject, questions, selectedQuestion,
          isAnalyzing, tempImage, isActionSheetOpen, alert, uploading,
          capture, loads, deleting, clearing, exporting, backup, importing,
          searchQuery, selectedTag, messages, input, isLoading, sending,
          issued>>

\* ------------------------------------------------------ filteredQuestions
\* The characters of the titles and tags that the search is tried on; any
\* other text counts as one character of its own.
Chars(str) ==
    CASE str = "Sine" -> <<"S", "i", "n", "e">>
      [] str = "Sets" -> <<"S", "e", "t", "s">>
      [] str = "Trig" -> <<"T", "r", "i", "g">>
      [] str = "Exam" -> <<"E", "x", "a", "m">>
      [] str = "Verb" -> <<"V", "e", "r", "b">>
      [] str = "Optics" -> <<"O", "p", "t", "i", "c", "s">>
      [] str = "" -> <<>>
      [] OTHER -> <<str>>
LowerCase(c) ==
    CASE c = "E" -> "e" [] c = "I" -> "i" [] c = "O" -> "o"
      [] c = "R" -> "r" [] c = "S" -> "s" [] c = "T" -> "t"
      [] c = "V" -> "v" [] c = "X" -> "x"
      [] OTHER -> c
toLowerCase(text) == [i \in 1..Len(text) |-> LowerCase(text[i])]
\* String.prototype.includes: part occurs in text (the empty part always).
includes(text, part) ==
    \E i \in 1..(Len(text) - Len(part) + 1) :
        SubSeq(text, i, i + Len(part) - 1) = part

\* The callback of questions.filter on one record. The title is tried
\* first; q.tags.some is reached only when the title does not match, and
\* q.tags.includes only when a tag is selected; either throws a TypeError
\* when the record has no tags.
TitleMatches(q) ==
    includes(toLowerCase(Chars(q.title)), toLowerCase(searchQuery))
FilterThrows(q) ==
    ~IsDef(q.tags) /\ (~TitleMatches(q) \/ TruthyStr(selectedTag))
FilterKeeps(q) ==
    /\ \/ TitleMatches(q)
       \/ \E k \in 1..Len(q.tags[1]) :
             includes(toLowerCase(Chars(q.tags[1][k])), toLowerCase(searchQuery))
    /\ \/ ~TruthyStr(selectedTag)
       \/ \E k \in 1..Len(q.tags[1]) : q.tags[1][k] = selectedTag[1]
\* Computed in the body of App, at every render and in every view.
filteredQuestions ==
    IF \E i \in 1..Len(questions) : FilterThrows(questions[i])
    THEN [threw |-> TRUE, list |-> <<>>]
    ELSE [threw |-> FALSE, list |-> SelectSeq(questions, FilterKeeps)]
\* Array.from(new Set(questions.flatMap(q => q.tags))), the tags that are
\* strings.
allTags ==
    UNION {IF IsDef(questions[i].tags)
           THEN {questions[i].tags[1][k] : k \in 1..Len(questions[i].tags[1])}
           ELSE {} : i \in 1..Len(questions)}
\* Rendering App throws: in the filter, or in the list of the subject view,
\* whose items call q.tags.slice. A record without tags that does not make
\* the filter throw is kept by it (its title matched and no tag is
\* selected), and is then an item of the list. Nothing catches the throw
\* and React unmounts App.
RenderThrows ==
    \E i \in 1..Len(questions) :
        /\ ~IsDef(questions[i].tags)
        /\ \/ FilterThrows(questions[i])
           \/ currentView = "subject" /\ IsDef(selectedSubject)
Mounted == ~RenderThrows

\* ----------------------------------------------------------------- AIChat
\* The greeting AIChat starts with, the reply used when the response has no
\* text, and the apology of the catch block.
Greeting == [role |-> "assistant", content |-> <<"greeting">>]
NoTextReply == <<"not understood">>
Apology == <<"technical problem">>
InitChat ==
    /\ messages = <<Greeting>>
    /\ input = <<>>
    /\ isLoading = FALSE
    /\ sending = None

\* ------------------------------------------------------ handler positions
\* startAnalysis: pc is "idle", "analyzing" (awaiting analyzeQuestionImage),
\* "saving" (in the loop, about to save analyses[k]), "loading" (awaiting
\* loadQuestions) or "alert" (blocked in alert()); subject and image are the
\* selectedSubject and tempImage of the render the click came from; response
\* is the parsed payload; saved are the ids this call has been given.
CaptureIdle ==
    [pc |-> "idle", subject |-> "", image |-> "",
     response |-> [kind |-> "none", items |-> <<>>, value |-> None],
     analyses |-> <<>>, k |-> 0, saved |-> {}]
\* importData: pc is "idle", "reading" (FileReader), "writing" (importQuestions
\* about to write items[k]) or "alert"; k - 1 items have been written, under
\* the ids written; interrupted tells that the store was cleared meanwhile.
ImportIdle ==
    [pc |-> "idle", file |-> NullFile, k |-> 0, written |-> {},
     interrupted |-> FALSE]

NoneIssued == [last |-> 0, afterDelete |-> FALSE, deletedMissing |-> FALSE]
\* save has returned id.
Issue(id) ==
    [issued EXCEPT
        !.last = id,
        !.afterDelete = @ \/ (issued.last > 0 /\ issued.last \notin DOMAIN db.rows)]

Image == "data:image/jpeg"
\* The store outlives the page: when App is constructed it holds what
\* earlier sessions left, here nothing or one Physics record.
EarlierRecord ==
    newQuestion("Physics", Image,
                SanitizeItem([CanonicalCandidate("Optics", PlainMermaid)
                                EXCEPT !.tags = None]), 1)
InitialStores == {EmptyDb, saveQuestion(EmptyDb, EarlierRecord)}

\* The component state of App as useState builds it.
InitApp ==
    /\ now = 1
    /\ currentView = "home"
    /\ selectedSubject = None
    /\ questions = <<>>
    /\ selectedQuestion = None
    /\ isAnalyzing = FALSE
    /\ tempImage = None
    /\ isActionSheetOpen = FALSE
    /\ alert = "none"
    /\ uploading = "idle"
    /\ capture = CaptureIdle
    /\ loads = <<>>
    /\ deleting = None
    /\ clearing = "idle"
    /\ exporting = FALSE
    /\ backup = None
    /\ importing = ImportIdle
    /\ searchQuery = <<>>
    /\ selectedTag = None
    /\ InitChat
    /\ issued = NoneIssued

Init == db \in InitialStores /\ InitApp

\* confirm() is on screen, or has returned and its handler runs on.
Confirms ==
    {"confirm_delete", "delete_accepted", "delete_declined",
     "confirm_clear", "clear_accepted", "clear_declined"}
\* No modal dialog, overlay or sheet is in the way of a click, and App is
\* on screen.
CanClick == alert = "none" /\ ~isAnalyzing /\ ~isActionSheetOpen /\ Mounted
\* A callback can run and set state: alert() blocks the event loop while it
\* is shown, and an unmounted App takes no state.
CanRun == alert = "none" /\ Mounted

\* useEffect on [currentView, selectedSubject]: the loadQuestions call it
\* issues after a render in which one of the two changed.
EffectLoads(view, subject) ==
    IF (view # currentView \/ subject # selectedSubject)
       /\ view = "subject" /\ IsDef(subject)
    THEN <<subject[1]>>
    ELSE <<>>

\* ------------------------------------------------------------- navigation
SelectSubject(s) ==
    /\ CanClick /\ currentView = "home"
    /\ Len(loads \o EffectLoads("subject", Some(s))) <= MaxLoads
    /\ selectedSubject' = Some(s)
    /\ currentView' = "subject"
    /\ loads' = loads \o EffectLoads("subject", Some(s))
    /\ UNCHANGED <<storeVars, now, questions, selectedQuestion, uploadVars,
                   alert, deleting, clearing, exporting, backup, importing,
                   browseVars, chatVars>>

GoTo(view) ==
    /\ CanClick /\ currentView # view
    /\ currentView' = view
    /\ UNCHANGED <<storeVars, now, selectedSubject, questions, selectedQuestion,
                   uploadVars, alert, taskVars, browseVars, chatVars>>
\* The home button of the tab bar and the back buttons that lead home.
GoHome == GoTo("home")
GoSettings == GoTo("settings")
GoAiChat == GoTo("ai-chat")

\* The back button of the detail view.
BackToList ==
    /\ CanClick /\ currentView = "detail"
    /\ Len(loads \o EffectLoads("subject", selectedSubject)) <= MaxLoads
    /\ currentView' = "subject"
    /\ loads' = loads \o EffectLoads("subject", selectedSubject)
    /\ UNCHANGED <<storeVars, now, selectedSubject, questions, selectedQuestion,
                   uploadVars, alert, deleting, clearing, exporting, backup,
                   importing, browseVars, chatVars>>

\* The cancel button of the preview.
CancelPreview ==
    /\ CanClick /\ currentView = "upload-preview" /\ IsDef(tempImage)
    /\ Len(loads \o EffectLoads("subject", selectedSubject)) <= MaxLoads
    /\ tempImage' = None
    /\ currentView' = "subject"
    /\ loads' = loads \o EffectLoads("subject", selectedSubject)
    /\ UNCHANGED <<storeVars, now, selectedSubject, questions, selectedQuestion,
                   isAnalyzing, isActionSheetOpen, uploading, capture, alert,
                   deleting, clearing, exporting, backup, importing,
                   browseVars, chatVars>>

\* A click on the i-th item of the list, which shows filteredQuestions.
OpenDetail(i) ==
    /\ CanClick /\ currentView = "subject" /\ IsDef(selectedSubject)
    /\ i \in 1..Len(filteredQuestions.list)
    /\ selectedQuestion' = Some(filteredQuestions.list[i])
    /\ currentView' = "detail"
    /\ UNCHANGED <<storeVars, now, selectedSubject, questions, uploadVars,
                   alert, taskVars, browseVars, chatVars>>

\* loadQuestions: the continuation of one call in flight.
LoadDone(i) ==
    /\ CanRun /\ i \in 1..Len(loads)
    /\ questions' = SortNewestFirst(getQuestionsBySubject(db, loads[i]))
    /\ loads' = SubSeq(loads, 1, i - 1) \o SubSeq(loads, i + 1, Len(loads))
    /\ UNCHANGED <<storeVars, now, currentView, selectedSubject,
                   selectedQuestion, uploadVars, alert, deleting, clearing,
                   exporting, backup, importing, browseVars, chatVars>>

\* The user answers the confirm() that is on screen.
ConfirmAnswered(confirmed) ==
    /\ alert \in {"confirm_delete", "confirm_clear"}
    /\ alert' = IF alert = "confirm_delete"
                THEN IF confirmed THEN "delete_accepted" ELSE "delete_declined"
                ELSE IF confirmed THEN "clear_accepted" ELSE "clear_declined"
    /\ UNCHANGED <<storeVars, now, viewVars, uploadVars, taskVars,
                   browseVars, chatVars>>

\* A faulty variant: after the failure alert startAnalysis calls the
\* analysis again by itself.
DismissAlertRetrying ==
    /\ alert \notin {"none"} \cup Confirms
    /\ alert' = "none"
    /\ isAnalyzing' = IF uploading = "alert"
                         \/ (capture.pc = "alert" /\ alert # "analysis_failed")
                      THEN FALSE ELSE isAnalyzing
    /\ uploading' = IF uploading = "alert" THEN "idle" ELSE uploading
    /\ capture' = IF capture.pc = "alert"
                  THEN IF alert = "analysis_failed"
                       THEN [capture EXCEPT !.pc = "analyzing"]
                       ELSE CaptureIdle
                  ELSE capture
    /\ clearing' = IF clearing = "alert" THEN "idle" ELSE clearing
    /\ importing' = IF importing.pc = "alert" THEN ImportIdle ELSE importing
    /\ UNCHANGED <<storeVars, now, viewVars, tempImage, isActionSheetOpen,
                   loads, deleting, exporting, backup, browseVars, chatVars>>

\* A faulty variant: the handlers have no finally block, so that closing an
\* alert ends them without resetting isAnalyzing.
DismissAlertKeepingBusy ==
    /\ alert \notin {"none"} \cup Confirms
    /\ alert' = "none"
    /\ uploading' = IF uploading = "alert" THEN "idle" ELSE uploading
    /\ capture' = IF capture.pc = "alert" THEN CaptureIdle ELSE capture
    /\ clearing' = IF clearing = "alert" THEN "idle" ELSE clearing
    /\ importing' = IF importing.pc = "alert" THEN ImportIdle ELSE importing
    /\ UNCHANGED <<storeVars, now, viewVars, isAnalyzing, tempImage,
                   isActionSheetOpen, loads, deleting, exporting, backup,
                   browseVars, chatVars>>

\* The user closes the alert; the handler blocked in alert() runs on: the
\* finally blocks of handleFileUpload and startAnalysis reset isAnalyzing.
DismissAlert ==
    /\ alert \notin {"none"} \cup Confirms
    /\ alert' = "none"
    /\ isAnalyzing' = IF uploading = "alert" \/ capture.pc = "alert"
                      THEN FALSE ELSE isAnalyzing
    /\ uploading' = IF uploading = "alert" THEN "idle" ELSE uploading
    /\ capture' = IF capture.pc = "alert" THEN CaptureIdle ELSE capture
    /\ clearing' = IF clearing = "alert" THEN "idle" ELSE clearing
    /\ importing' = IF importing.pc = "alert" THEN ImportIdle ELSE importing
    /\ UNCHANGED <<storeVars, now, viewVars, tempImage, isActionSheetOpen,
                   loads, deleting, exporting, backup, browseVars, chatVars>>

Tick ==
    /\ now < MaxTime
    /\ now' = now + 1
    /\ UNCHANGED <<storeVars, viewVars, uploadVars, alert, taskVars,
                   browseVars, chatVars>>

\* ----------------------------------------------------------------- upload
\* The plus button of the subject view and the camera button of the tab bar.
OpenActionSheet ==
    /\ CanClick /\ currentView # "home"
    /\ isActionSheetOpen' = TRUE
    /\ UNCHANGED <<storeVars, now, viewVars, isAnalyzing, tempImage, uploading,
                   capture, alert, taskVars, browseVars, chatVars>>

CloseActionSheet ==
    /\ alert = "none" /\ isActionSheetOpen
    /\ isActionSheetOpen' = FALSE
    /\ UNCHANGED <<storeVars, now, viewVars, isAnalyzing, tempImage, uploading,
                   capture, alert, taskVars, browseVars, chatVars>>

\* A sheet button, then a file chosen in the picker: handleFileUpload up to
\* its first await.
handleFileUpload ==
    /\ alert = "none" /\ isActionSheetOpen /\ uploading = "idle"
    /\ isActionSheetOpen' = FALSE
    /\ IF IsDef(selectedSubject)
       THEN isAnalyzing' = TRUE /\ uploading' = "busy"
       ELSE UNCHANGED <<isAnalyzing, uploading>>
    /\ UNCHANGED <<storeVars, now, viewVars, tempImage, capture, alert,
                   taskVars, browseVars, chatVars>>

\* fileToBase64 and compressImage have answered (ok) or thrown.
UploadDone(ok) ==
    /\ CanRun /\ uploading = "busy"
    /\ IF ok
       THEN /\ tempImage' = Some(Image)
            /\ currentView' = "upload-preview"
            /\ isAnalyzing' = FALSE
            /\ uploading' = "idle"
            /\ alert' = alert
       ELSE /\ alert' = "upload_failed"
            /\ uploading' = "alert"
            /\ UNCHANGED <<tempImage, currentView, isAnalyzing>>
    /\ UNCHANGED <<storeVars, now, selectedSubject, questions, selectedQuestion,
                   isActionSheetOpen, capture, taskVars, browseVars, chatVars>>

\* ---------------------------------------------------------- startAnalysis
startAnalysis ==
    /\ CanClick /\ currentView = "upload-preview"
    /\ IsDef(tempImage) /\ IsDef(selectedSubject) /\ capture.pc = "idle"
    /\ isAnalyzing' = TRUE
    /\ capture' = [CaptureIdle EXCEPT !.pc = "analyzing",
                                      !.subject = selectedSubject[1],
                                      !.image = tempImage[1]]
    /\ UNCHANGED <<storeVars, now, viewVars, tempImage, isActionSheetOpen,
                   uploading, alert, taskVars, browseVars, chatVars>>

\* A faulty variant: the tail of the try block also runs when there are no
\* analyses, so the preview is dropped.
AnalysisReturnsDroppingPreview(parsed) ==
    /\ capture.pc = "analyzing" /\ CanRun
    /\ LET r == analyzeQuestionImage(parsed)
       IN  IF r.threw
           THEN /\ alert' = "analysis_failed"
                /\ capture' = [capture EXCEPT !.pc = "alert", !.response = parsed]
                /\ UNCHANGED <<viewVars, tempImage>>
           ELSE IF Len(r.analyses) = 0
           THEN /\ alert' = "empty_analysis"
                /\ capture' = [capture EXCEPT !.pc = "alert", !.response = parsed]
                /\ tempImage' = None
                /\ currentView' = "subject"
                /\ UNCHANGED <<selectedSubject, questions, selectedQuestion>>
           ELSE /\ alert' = alert
                /\ capture' = [capture EXCEPT !.pc = "saving", !.response = parsed,
                                              !.analyses = r.analyses, !.k = 1]
                /\ UNCHANGED <<viewVars, tempImage>>
    /\ UNCHANGED <<storeVars, now, isAnalyzing, isActionSheetOpen, uploading,
                   taskVars, browseVars, chatVars>>

\* analyzeQuestionImage has answered with the parsed payload.
AnalysisReturns(parsed) ==
    /\ capture.pc = "analyzing" /\ CanRun
    /\ LET r == analyzeQuestionImage(parsed)
       IN  IF r.threw
           THEN /\ alert' = "analysis_failed"
                /\ capture' = [capture EXCEPT !.pc = "alert", !.response = parsed]
           ELSE IF Len(r.analyses) = 0
           THEN /\ alert' = "empty_analysis"
                /\ capture' = [capture EXCEPT !.pc = "alert", !.response = parsed]
           ELSE /\ alert' = alert
                /\ capture' = [capture EXCEPT !.pc = "saving", !.response = parsed,
                                              !.analyses = r.analyses, !.k = 1]
    /\ UNCHANGED <<storeVars, now, viewVars, isAnalyzing, tempImage,
                   isActionSheetOpen, uploading, taskVars,
                   browseVars, chatVars>>

\* The remote call itself fails (network, quota, timeout).
AnalysisRejects ==
    /\ capture.pc = "analyzing" /\ CanRun
    /\ alert' = "analysis_failed"
    /\ capture' = [capture EXCEPT !.pc = "alert"]
    /\ UNCHANGED <<storeVars, now, viewVars, isAnalyzing, tempImage,
                   isActionSheetOpen, uploading, taskVars,
                   browseVars, chatVars>>

\* A faulty variant of the loop: every turn builds its record from the
\* first analysis.
CaptureSaveOfFirst ==
    /\ CanRun /\ capture.pc = "saving" /\ ~StoreFull(db)
    /\ LET rec == newQuestion(capture.subject, capture.image,
                              capture.analyses[1], now)
       IN  /\ db' = saveQuestion(db, rec)
           /\ issued' = Issue(savedId(db))
           /\ capture' = [capture EXCEPT
                  !.saved = @ \cup {savedId(db)},
                  !.k = @ + 1,
                  !.pc = IF capture.k = Len(capture.analyses)
                         THEN "loading" ELSE "saving"]
    /\ UNCHANGED <<now, viewVars, isAnalyzing, tempImage, isActionSheetOpen,
                   uploading, alert, taskVars, browseVars, chatVars>>

\* One turn of the loop: the record of analyses[k] is built and saved.
CaptureSave ==
    /\ CanRun /\ capture.pc = "saving" /\ ~StoreFull(db)
    /\ LET rec == newQuestion(capture.subject, capture.image,
                              capture.analyses[capture.k], now)
       IN  /\ db' = saveQuestion(db, rec)
           /\ issued' = Issue(savedId(db))
           /\ capture' = [capture EXCEPT
                  !.saved = @ \cup {savedId(db)},
                  !.k = @ + 1,
                  !.pc = IF capture.k = Len(capture.analyses)
                         THEN "loading" ELSE "saving"]
    /\ UNCHANGED <<now, viewVars, isAnalyzing, tempImage, isActionSheetOpen,
                   uploading, alert, taskVars, browseVars, chatVars>>

\* saveQuestion rejects with a StorageFault: the catch block.
CaptureSaveFault ==
    /\ CanRun /\ capture.pc = "saving"
    /\ alert' = "analysis_failed"
    /\ capture' = [capture EXCEPT !.pc = "alert"]
    /\ UNCHANGED <<storeVars, now, viewVars, isAnalyzing, tempImage,
                   isActionSheetOpen, uploading, taskVars,
                   browseVars, chatVars>>

\* await loadQuestions(selectedSubject) and the rest of the try block.
CaptureLoaded ==
    /\ CanRun /\ capture.pc = "loading"
    /\ Len(loads \o EffectLoads("subject", selectedSubject)) <= MaxLoads
    /\ questions' = SortNewestFirst(getQuestionsBySubject(db, capture.subject))
    /\ tempImage' = None
    /\ currentView' = "subject"
    /\ loads' = loads \o EffectLoads("subject", selectedSubject)
    /\ isAnalyzing' = FALSE
    /\ capture' = CaptureIdle
    /\ UNCHANGED <<storeVars, now, selectedSubject, selectedQuestion,
                   isActionSheetOpen, uploading, alert, deleting, clearing,
                   exporting, backup, importing, browseVars, chatVars>>

\* ----------------------------------------------------------- handleDelete
\* The delete button of the detail view, shown for a record that has an id:
\* handleDelete asks with confirm().
handleDelete ==
    /\ CanClick /\ currentView = "detail" /\ IsDef(selectedQuestion)
    /\ TruthyNum(selectedQuestion[1].id) /\ deleting = None
    /\ alert' = "confirm_delete"
    /\ UNCHANGED <<storeVars, now, viewVars, uploadVars, taskVars,
                   browseVars, chatVars>>

\* A faulty variant: handleDelete goes on to deleteQuestion whatever
\* confirm() returned.
handleDeleteResumesRegardless ==
    /\ alert \in {"delete_accepted", "delete_declined"}
    /\ alert' = "none"
    /\ deleting' = Some([id |-> selectedQuestion[1].id[1],
                         subject |-> selectedSubject])
    /\ UNCHANGED <<storeVars, now, viewVars, uploadVars, loads, clearing,
                   exporting, backup, importing, browseVars, chatVars>>

\* confirm() has returned: if the user accepted, handleDelete calls
\* deleteQuestion and awaits it; if not, it ends.
handleDeleteResumes ==
    /\ alert \in {"delete_accepted", "delete_declined"}
    /\ alert' = "none"
    /\ deleting' = IF alert = "delete_accepted"
                   THEN Some([id |-> selectedQuestion[1].id[1],
                              subject |-> selectedSubject])
                   ELSE deleting
    /\ UNCHANGED <<storeVars, now, viewVars, uploadVars, loads, clearing,
                   exporting, backup, importing, browseVars, chatVars>>

\* deleteQuestion has answered: loadQuestions is called (not awaited) and
\* the view is set to the list.
DeleteDone ==
    /\ CanRun /\ IsDef(deleting)
    /\ LET own == IF IsDef(deleting[1].subject)
                  THEN <<deleting[1].subject[1]>> ELSE <<>>
           all == loads \o own \o EffectLoads("subject", selectedSubject)
       IN  /\ Len(all) <= MaxLoads
           /\ loads' = all
    /\ db' = deleteQuestion(db, deleting[1].id)
    /\ issued' = [issued EXCEPT
                     !.deletedMissing = @ \/ deleting[1].id \notin DOMAIN db.rows]
    /\ currentView' = "subject"
    /\ deleting' = None
    /\ UNCHANGED <<now, selectedSubject, questions, selectedQuestion,
                   uploadVars, alert, clearing, exporting, backup, importing,
                   browseVars, chatVars>>

\* deleteQuestion rejects: nothing catches it and nothing else runs.
DeleteFault ==
    /\ CanRun /\ IsDef(deleting)
    /\ deleting' = None
    /\ UNCHANGED <<storeVars, now, viewVars, uploadVars, alert, loads, clearing,
                   exporting, backup, importing, browseVars, chatVars>>

\* -------------------------------------------------------------- clear all
\* The clear button of the settings view asks with confirm().
clearAll ==
    /\ CanClick /\ currentView = "settings" /\ clearing = "idle"
    /\ alert' = "confirm_clear"
    /\ UNCHANGED <<storeVars, now, viewVars, uploadVars, taskVars,
                   browseVars, chatVars>>

\* confirm() has returned: if the user accepted, the handler calls
\* clearAllQuestions and awaits it; if not, it ends.
clearAllResumes ==
    /\ alert \in {"clear_accepted", "clear_declined"}
    /\ alert' = "none"
    /\ clearing' = IF alert = "clear_accepted" THEN "busy" ELSE clearing
    /\ UNCHANGED <<storeVars, now, viewVars, uploadVars, loads, deleting,
                   exporting, backup, importing, browseVars, chatVars>>

ClearDone(reset) ==
    /\ CanRun /\ clearing = "busy"
    /\ db' = clearAllQuestions(db, reset)
    /\ issued' = NoneIssued
    /\ alert' = "cleared"
    /\ clearing' = "alert"
    /\ importing' = [importing EXCEPT !.interrupted = importing.pc # "idle"]
    /\ UNCHANGED <<now, viewVars, uploadVars, loads, deleting, exporting,
                   backup, browseVars, chatVars>>

ClearFault ==
    /\ CanRun /\ clearing = "busy"
    /\ clearing' = "idle"
    /\ UNCHANGED <<storeVars, now, viewVars, uploadVars, alert, loads, deleting,
                   exporting, backup, importing, browseVars, chatVars>>

\* ----------------------------------------------------------------- export
exportData ==
    /\ CanClick /\ currentView = "settings" /\ ~exporting
    /\ exporting' = TRUE
    /\ UNCHANGED <<storeVars, now, viewVars, uploadVars, alert, loads, deleting,
                   clearing, backup, importing, browseVars, chatVars>>

\* getAllQuestions has answered: the text is written to the download.
ExportDone ==
    /\ CanRun /\ exporting
    /\ backup' = Some([text |-> JSONstringify(getAllQuestions(db)),
                       source |-> getAllQuestions(db)])
    /\ exporting' = FALSE
    /\ UNCHANGED <<storeVars, now, viewVars, uploadVars, alert, loads, deleting,
                   clearing, importing, browseVars, chatVars>>

\* ----------------------------------------------------------------- import
\* A file is chosen in the settings view: the FileReader starts.
importData(file) ==
    /\ CanClick /\ currentView = "settings" /\ importing.pc = "idle"
    /\ importing' = [ImportIdle EXCEPT !.pc = "reading", !.file = file]
    /\ UNCHANGED <<storeVars, now, viewVars, uploadVars, alert, loads, deleting,
                   clearing, exporting, backup, browseVars, chatVars>>

\* A faulty variant of reader.onload: the success alert sits behind the
\* try/catch, so it is shown whatever the file was.
ImportLoadedAlertsSuccess ==
    /\ CanRun /\ importing.pc = "reading"
    /\ IF JSONparseThrows(importing.file) \/ ImportRejects(importing.file)
          \/ importing.file.items = <<>>
       THEN /\ alert' = "import_ok"
            /\ importing' = [importing EXCEPT !.pc = "alert"]
       ELSE /\ alert' = alert
            /\ importing' = [importing EXCEPT !.pc = "writing", !.k = 1]
    /\ UNCHANGED <<storeVars, now, viewVars, uploadVars, loads, deleting,
                   clearing, exporting, backup, browseVars, chatVars>>

\* reader.onload: JSON.parse, then importQuestions is entered.
ImportLoaded ==
    /\ CanRun /\ importing.pc = "reading"
    /\ IF JSONparseThrows(importing.file) \/ ImportRejects(importing.file)
       THEN /\ alert' = "import_failed"
            /\ importing' = [importing EXCEPT !.pc = "alert"]
       ELSE IF importing.file.items = <<>>
       THEN /\ alert' = "import_ok"
            /\ importing' = [importing EXCEPT !.pc = "alert"]
       ELSE /\ alert' = alert
            /\ importing' = [importing EXCEPT !.pc = "writing", !.k = 1]
    /\ UNCHANGED <<storeVars, now, viewVars, uploadVars, loads, deleting,
                   clearing, exporting, backup, browseVars, chatVars>>

\* importQuestions writes items[k]; after the last one the success alert.
ImportWrite ==
    /\ CanRun /\ importing.pc = "writing" /\ ~StoreFull(db)
    /\ db' = importOne(db, importing.file.items[importing.k])
    /\ issued' = Issue(savedId(db))
    /\ LET last == importing.k = Len(importing.file.items)
       IN  /\ importing' = [importing EXCEPT
                  !.written = @ \cup {savedId(db)},
                  !.k = @ + 1,
                  !.pc = IF last THEN "alert" ELSE "writing"]
           /\ alert' = IF last THEN "import_ok" ELSE alert
    /\ UNCHANGED <<now, viewVars, uploadVars, loads, deleting, clearing,
                   exporting, backup, browseVars, chatVars>>

\* A write of importQuestions rejects with a StorageFault: the catch block.
ImportFault ==
    /\ CanRun /\ importing.pc = "writing"
    /\ alert' = "import_failed"
    /\ importing' = [importing EXCEPT !.pc = "alert"]
    /\ UNCHANGED <<storeVars, now, viewVars, uploadVars, loads, deleting,
                   clearing, exporting, backup, browseVars, chatVars>>

\* ------------------------------------------------------- search and tags
\* The search box of the subject view: onChange sets searchQuery.
setSearchQuery(text) ==
    /\ CanClick /\ currentView = "subject" /\ IsDef(selectedSubject)
    /\ text # searchQuery
    /\ searchQuery' = text
    /\ UNCHANGED <<storeVars, now, viewVars, uploadVars, alert, taskVars,
                   selectedTag, chatVars>>

\* A tag chip: it selects its tag, or no tag when its tag is the selected
\* one.
setSelectedTag(tag) ==
    /\ CanClick /\ currentView = "subject" /\ IsDef(selectedSubject)
    /\ tag \in allTags
    /\ selectedTag' = IF selectedTag = Some(tag) THEN None ELSE Some(tag)
    /\ UNCHANGED <<storeVars, now, viewVars, uploadVars, alert, taskVars,
                   searchQuery, chatVars>>

\* The chip "all", shown when the list has a tag.
clearSelectedTag ==
    /\ CanClick /\ currentView = "subject" /\ IsDef(selectedSubject)
    /\ allTags # {} /\ IsDef(selectedTag)
    /\ selectedTag' = None
    /\ UNCHANGED <<storeVars, now, viewVars, uploadVars, alert, taskVars,
                   searchQuery, chatVars>>

\* ------------------------------------------------------- AIChat.handleSend
\* The text box of the chat: onChange sets input.
setInput(text) ==
    /\ CanClick /\ currentView = "ai-chat"
    /\ text # input
    /\ input' = text
    /\ UNCHANGED <<storeVars, now, viewVars, uploadVars, alert, taskVars,
                   browseVars, messages, isLoading, sending>>

\* A faulty variant of handleSend: the guard does not look at isLoading.
handleSendWhileLoading ==
    /\ CanClick /\ currentView = "ai-chat"
    /\ Trim(input) # <<>>
    /\ Len(messages) < 1 + 2 * MaxTurns
    /\ input' = <<>>
    /\ messages' = Append(messages, [role |-> "user", content |-> Trim(input)])
    /\ isLoading' = TRUE
    /\ sending' = Some(Trim(input))
    /\ UNCHANGED <<storeVars, now, viewVars, uploadVars, alert, taskVars,
                   browseVars>>

\* The send button or the Enter key, up to the await of generateContent.
\* With an input that trims to nothing, or while isLoading, handleSend
\* returns at once and nothing changes.
handleSend ==
    /\ CanClick /\ currentView = "ai-chat"
    /\ Trim(input) # <<>> /\ ~isLoading
    /\ Len(messages) < 1 + 2 * MaxTurns
    /\ input' = <<>>
    /\ messages' = Append(messages, [role |-> "user", content |-> Trim(input)])
    /\ isLoading' = TRUE
    /\ sending' = Some(Trim(input))
    /\ UNCHANGED <<storeVars, now, viewVars, uploadVars, alert, taskVars,
                   browseVars>>

\* generateContent has answered: response.text, or the fixed reply when it
\* is undefined or empty, is appended; the finally block resets isLoading.
ReplyArrives(text) ==
    /\ CanRun /\ IsDef(sending)
    /\ messages' = Append(messages,
                      [role |-> "assistant",
                       content |-> IF IsDef(text) /\ text[1] # <<>>
                                   THEN text[1] ELSE NoTextReply])
    /\ isLoading' = FALSE
    /\ sending' = None
    /\ UNCHANGED <<storeVars, now, viewVars, uploadVars, alert, taskVars,
                   browseVars, input>>

\* generateContent, or anything else in the try block, throws: the catch
\* block appends the apology; the finally block resets isLoading.
ReplyFails ==
    /\ CanRun /\ IsDef(sending)
    /\ messages' = Append(messages, [role |-> "assistant", content |-> Apology])
    /\ isLoading' = FALSE
    /\ sending' = None
    /\ UNCHANGED <<storeVars, now, viewVars, uploadVars, alert, taskVars,
                   browseVars, input>>

\* ------------------------------------------------------------ the inputs
\* What the remote model may answer in the application as a whole.
OneQuestion ==
    ArrayPayload(<<Some(CanonicalCandidate("Optics", PlainMermaid))>>)
TwoQuestions ==
    ArrayPayload(<<Some(CanonicalCandidate("Passive voice", FencedMermaid)),
                   Some(LegacyCandidate)>>)
Payloads == {OneQuestion, TwoQuestions, ArrayPayload(<<>>)}
\* The subject the user works in.
Opened == {"Math"}

\* Records of a backup file written by hand or by an older version: one of
\* the older flat shape that carries an id, one of the canonical shape.
LegacyRecord ==
    [id |-> Some(1), subject |-> "Math", title |-> "old", tags |-> Some(<<"tag">>),
     image |-> Image, analysis |-> LegacyCandidate, createdAt |-> 1,
     undefinedKeys |-> {}]
CanonicalRecord ==
    [id |-> None, subject |-> "Physics", title |-> "new", tags |-> Some(<<"tag">>),
     image |-> Image,
     analysis |-> SanitizeItem(CanonicalCandidate("Optics", PlainMermaid)),
     createdAt |-> 2, undefinedKeys |-> {}]
MixedFile == [kind |-> "array", items |-> <<LegacyRecord, CanonicalRecord>>]
Files ==
    {MixedFile, [kind |-> "array", items |-> <<>>], UnparseableFile,
     ObjectFile(CanonicalRecord), NumberFile, NullFile}

\* ------------------------------------------------------- the application
\* Browsing, capture and delete.
Next ==
    \/ \E s \in Opened : SelectSubject(s)
    \/ GoHome
    \/ GoAiChat
    \/ BackToList
    \/ CancelPreview
    \/ \E i \in 1..MaxId : OpenDetail(i)
    \/ \E i \in 1..MaxLoads : LoadDone(i)
    \/ DismissAlert
    \/ OpenActionSheet
    \/ CloseActionSheet
    \/ handleFileUpload
    \/ \E ok \in BOOLEAN : UploadDone(ok)
    \/ startAnalysis
    \/ \E parsed \in Payloads : AnalysisReturns(parsed)
    \/ AnalysisRejects
    \/ CaptureSave
    \/ CaptureSaveFault
    \/ CaptureLoaded
    \/ handleDelete
    \/ \E confirmed \in BOOLEAN : ConfirmAnswered(confirmed)
    \/ handleDeleteResumes
    \/ DeleteDone
    \/ DeleteFault

Spec == Init /\ [][Next]_vars

\* The settings view: export, import and clear.
NextBackup ==
    \/ GoSettings
    \/ GoHome
    \/ DismissAlert
    \/ clearAll
    \/ \E confirmed \in BOOLEAN : ConfirmAnswered(confirmed)
    \/ clearAllResumes
    \/ \E reset \in BOOLEAN : ClearDone(reset)
    \/ ClearFault
    \/ exportData
    \/ ExportDone
    \/ \E file \in Files : importData(file)
    \/ IsDef(backup) /\ importData(backup[1].text)
    \/ ImportLoaded
    \/ ImportWrite
    \/ ImportFault

SpecBackup == Init /\ [][NextBackup]_vars

\* ----------------------------------------------- the analysis on its own
\* Shapes the remote model may answer with: every combination of the nested
\* objects being there or not, with the older flat keys or without.
FencedOther == <<Newline, Fence, OtherTag, Newline, "A-->B", Newline, Fence, Newline>>
LogicEngines ==
    {None, Some(EmptyLogicEngine)}
    \cup {Some(LogicEngine(Some(m), d)) :
            m \in {<<>>, PlainMermaid, FencedMermaid, FencedOther},
            d \in {None, Some(4)}}
Candidate(c, k, le, e, tg, ti, old) ==
    [EmptyObject EXCEPT
        !.title = ti, !.tags = tg,
        !.comparison = IF c THEN Some(Comparison("ans")) ELSE None,
        !.knowledgeMap = IF k THEN Some(KnowledgeMap("Optics")) ELSE None,
        !.logicEngine = le,
        !.errorRoot = IF e THEN Some(ErrorRoot) ELSE None,
        !.studentAnswer = IF old THEN Some("ans") ELSE None,
        !.errorAnalysis = IF old THEN Some("why") ELSE None,
        !.knowledgePoints = IF old THEN Some(<<"Trig identities">>) ELSE None,
        !.examinerIntent = IF old THEN Some("intent") ELSE None,
        !.difficulty = IF old THEN Some(2) ELSE None]
CandidateSpace ==
    {Candidate(c, k, le, e, tg, ti, old) :
        c \in BOOLEAN, k \in BOOLEAN, le \in LogicEngines, e \in BOOLEAN,
        tg \in {None, Some(<<>>), Some(<<"tag">>)},
        ti \in {None, Some(""), Some("title")}, old \in BOOLEAN}
SomeCandidates ==
    {CanonicalCandidate("Passive voice", FencedMermaid), LegacyCandidate,
     EmptyObject}
\* Mermaid code with whitespace around it and of whitespace alone, and
\* difficulties outside 1..5.
PaddedMermaid == <<Newline, "A-->B", Newline>>
BlankMermaid == <<Newline>>
EdgeCandidates ==
    {[CanonicalCandidate("Optics", PlainMermaid) EXCEPT
        !.logicEngine = Some(LogicEngine(Some(m), Some(d)))] :
        m \in {PaddedMermaid, BlankMermaid}, d \in {0 - 1, 0, 7}}
AnalyzePayloads ==
    {ObjectPayload(c) : c \in CandidateSpace}
    \cup {ArrayPayload(<<Some(c)>>) : c \in CandidateSpace}
    \cup {ArrayPayload(<<Some(a), Some(b)>>) : a, b \in SomeCandidates}
    \cup {ArrayPayload(<<>>), ArrayPayload(<<None>>),
          ArrayPayload(<<Some(LegacyCandidate), None>>),
          NullPayload, PrimitivePayload, UnparseablePayload, EmptyTextPayload}
    \cup {ObjectPayload(c) : c \in EdgeCandidates}

\* The application once the button of the preview has been clicked:
\* startAnalysis awaits analyzeQuestionImage.
InitAnalyze ==
    /\ db = EmptyDb
    /\ now = 1
    /\ currentView = "upload-preview"
    /\ selectedSubject = Some("Math")
    /\ questions = <<>>
    /\ selectedQuestion = None
    /\ isAnalyzing = TRUE
    /\ tempImage = Some(Image)
    /\ isActionSheetOpen = FALSE
    /\ alert = "none"
    /\ uploading = "idle"
    /\ capture = [CaptureIdle EXCEPT !.pc = "analyzing", !.subject = "Math",
                                     !.image = Image]
    /\ loads = <<>>
    /\ deleting = None
    /\ clearing = "idle"
    /\ exporting = FALSE
    /\ backup = None
    /\ importing = ImportIdle
    /\ searchQuery = <<>>
    /\ selectedTag = None
    /\ InitChat
    /\ issued = NoneIssued

NextAnalyze ==
    \/ \E parsed \in AnalyzePayloads : AnalysisReturns(parsed)
    \/ AnalysisRejects
    \/ CaptureSave
    \/ CaptureSaveFault
    \/ CaptureLoaded
    \/ DismissAlert
    \/ \E i \in 1..MaxLoads : LoadDone(i)
    \/ Tick

SpecAnalyze == InitAnalyze /\ [][NextAnalyze]_vars

\* ------------------------------------------------- the capture on its own
\* Upload and analysis in one subject, from the home view.
NextCapture ==
    \/ \E s \in Opened : SelectSubject(s)
    \/ GoHome
    \/ CancelPreview
    \/ \E i \in 1..MaxLoads : LoadDone(i)
    \/ DismissAlert
    \/ OpenActionSheet
    \/ CloseActionSheet
    \/ handleFileUpload
    \/ \E ok \in BOOLEAN : UploadDone(ok)
    \/ startAnalysis
    \/ \E parsed \in Payloads : AnalysisReturns(parsed)
    \/ AnalysisRejects
    \/ CaptureSave
    \/ CaptureSaveFault
    \/ CaptureLoaded

\* A call that a handler awaits completes, or an alert(), which blocks its
\* handler, is closed.
Completes ==
    \/ \E ok \in BOOLEAN : UploadDone(ok)
    \/ \E parsed \in Payloads : AnalysisReturns(parsed)
    \/ AnalysisRejects
    \/ CaptureSave
    \/ CaptureSaveFault
    \/ CaptureLoaded
    \/ \E i \in 1..MaxLoads : LoadDone(i)
    \/ DismissAlert

\* As long as something is awaited, one of the awaited things completes.
SpecCapture == Init /\ [][NextCapture]_vars /\ WF_vars(Completes)

\* ------------------------------------------------- browsing on its own
\* The subjects the user browses, and the records earlier sessions left:
\* two of Math and one of English with tags, and the Physics record that
\* has none.
Browsed == {"Math", "English", "Physics"}
SineRecord ==
    newQuestion("Math", Image,
                SanitizeItem([CanonicalCandidate("Sine", PlainMermaid)
                                EXCEPT !.tags = Some(<<"Trig">>)]), 1)
SetsRecord ==
    newQuestion("Math", Image,
                SanitizeItem([CanonicalCandidate("Sets", PlainMermaid)
                                EXCEPT !.tags = Some(<<"Exam", "Trig">>)]), 2)
VerbRecord ==
    newQuestion("English", Image,
                SanitizeItem([CanonicalCandidate("Verb", PlainMermaid)
                                EXCEPT !.tags = Some(<<"Exam">>)]), 2)
BrowseStore ==
    saveQuestion(
        saveQuestion(saveQuestion(saveQuestion(EmptyDb, SineRecord), EarlierRecord),
                     SetsRecord),
        VerbRecord)
\* What the user types into the search box.
Queries == {<<>>, <<"s">>, <<"T", "R", "I">>, <<"x">>, <<"q">>}
InitBrowse == db = BrowseStore /\ InitApp

NextBrowse ==
    \/ \E s \in Browsed : SelectSubject(s)
    \/ GoHome
    \/ \E i \in 1..MaxId : OpenDetail(i)
    \/ BackToList
    \/ \E i \in 1..MaxLoads : LoadDone(i)
    \/ \E text \in Queries : setSearchQuery(text)
    \/ \E tag \in {"Trig", "Exam"} : setSelectedTag(tag)
    \/ clearSelectedTag

SpecBrowse == InitBrowse /\ [][NextBrowse]_vars

\* ---------------------------------------------------- the chat on its own
\* What the user types into the text box, and what generateContent answers
\* with as response.text.
Inputs ==
    {<<>>, <<" ">>, <<"h", "i">>, <<" ", "h", "i", Newline>>, <<"w", "h", "y">>}
ReplyTexts == {Some(<<"answer">>), Some(<<>>), None}
InitChatOpen ==
    /\ db \in InitialStores
    /\ now = 1
    /\ currentView = "ai-chat"
    /\ selectedSubject = None
    /\ questions = <<>>
    /\ selectedQuestion = None
    /\ isAnalyzing = FALSE
    /\ tempImage = None
    /\ isActionSheetOpen = FALSE
    /\ alert = "none"
    /\ uploading = "idle"
    /\ capture = CaptureIdle
    /\ loads = <<>>
    /\ deleting = None
    /\ clearing = "idle"
    /\ exporting = FALSE
    /\ backup = None
    /\ importing = ImportIdle
    /\ searchQuery = <<>>
    /\ selectedTag = None
    /\ InitChat
    /\ issued = NoneIssued

NextChat ==
    \/ \E text \in Inputs : setInput(text)
    \/ handleSend
    \/ \E text \in ReplyTexts : ReplyArrives(text)
    \/ ReplyFails

\* generateContent is an awaited call to a service: it answers or fails.
SpecChat ==
    /\ InitChatOpen /\ [][NextChat]_vars
    /\ WF_vars((\E text \in ReplyTexts : ReplyArrives(text)) \/ ReplyFails)

\* ------------------------------------------------------------- properties
\* What the properties read of a record: every field but the id (a key whose
\* value is undefined reads as undefined, like a key that is absent).
Fields(r) ==
    [subject |-> r.subject, title |-> r.title, tags |-> r.tags,
     image |-> r.image, analysis |-> r.analysis, createdAt |-> r.createdAt]
CountOf(records, x) ==
    Cardinality({i \in 1..Len(records) : Fields(records[i]) = x})
\* The two sequences hold the same records, ids and order aside.
SameRecordsButIds(A, B) ==
    /\ Len(A) = Len(B)
    /\ \A i \in 1..Len(A) : CountOf(A, Fields(A[i])) = CountOf(B, Fields(A[i]))

\* Every field of the canonical analysis is there, the nested ones included.
IsCanonical(a) ==
    /\ IsDef(a.questionText) /\ IsDef(a.isCorrect) /\ IsDef(a.solution)
    /\ IsDef(a.masteryLevel)
    /\ IsDef(a.comparison)
    /\ \A f \in DOMAIN a.comparison[1] : IsDef(a.comparison[1][f])
    /\ IsDef(a.errorRoot)
    /\ \A f \in DOMAIN a.errorRoot[1] : IsDef(a.errorRoot[1][f])
    /\ IsDef(a.knowledgeMap)
    /\ \A f \in DOMAIN a.knowledgeMap[1] : IsDef(a.knowledgeMap[1][f])
    /\ IsDef(a.logicEngine)
    /\ \A f \in {"mermaidCode", "difficulty", "examinerIntent"} :
            IsDef(a.logicEngine[1][f])

\* item.logicEngine?.f
ReadLogicEngine(a, f) ==
    IF IsDef(a.logicEngine) THEN a.logicEngine[1][f] ELSE None
\* The analysis reads like the candidate everywhere but at
\* logicEngine.mermaidCode.
SameButMermaidCode(a, c) ==
    /\ \A f \in DOMAIN EmptyObject \ {"logicEngine"} : a[f] = c[f]
    /\ \A f \in DOMAIN EmptyLogicEngine \ {"mermaidCode"} :
            ReadLogicEngine(a, f) = ReadLogicEngine(c, f)

\* A step in which a save of the store returns (to startAnalysis or to
\* importQuestions).
SaveReturns ==
    \/ capture.pc = "saving" /\ capture'.k = capture.k + 1
    \/ importing.pc = "writing" /\ importing'.k = importing.k + 1

\* C1: as long as the store is not cleared, every id that save returns is
\* greater than the id it returned before, and is the id of no record that
\* is in the store; deleting records in between, the one with the highest
\* id included, does not bring an id back.
IdMonotonicity ==
    [][SaveReturns =>
          /\ issued'.last > issued.last
          /\ issued'.last \notin DOMAIN db.rows
          /\ issued'.last \in DOMAIN db'.rows]_vars
\* A save has returned after the record with the highest id was deleted.
SavedAfterDeletingHighest ==
    issued.afterDelete /\ issued.last \in DOMAIN db.rows

\* C2: in every state of the store and for each of the four subjects,
\* getQuestionsBySubject returns exactly the records of getAllQuestions
\* that have this subject.
SubjectFilterCorrect ==
    \A S \in SUBJECTS :
        getQuestionsBySubject(db, S)
            = SelectSeq(getAllQuestions(db), LAMBDA r : r.subject = S)
\* The store holds records of two subjects.
TwoSubjectsStored ==
    /\ getQuestionsBySubject(db, "Math") # <<>>
    /\ getQuestionsBySubject(db, "Physics") # <<>>

\* importData has finished with the success alert, the file was the one
\* exportData wrote last, the store was empty when the import began and
\* nothing but the import has written to it since.
RoundTripDone ==
    /\ importing.pc = "alert" /\ alert = "import_ok"
    /\ IsDef(backup) /\ importing.file = backup[1].text
    /\ DOMAIN db.rows = importing.written /\ ~importing.interrupted

NormalizationTotal ==
    /\ capture.pc \in {"saving", "loading"} =>
          \A i \in 1..Len(capture.analyses) : IsCanonical(capture.analyses[i])
    /\ \A id \in capture.saved \cap DOMAIN db.rows :
          IsCanonical(db.rows[id].analysis)

\* C5: when the payload is [], null or {}, startAnalysis ends in the
\* advisory for an empty analysis and has saved nothing.
EmptyPayloadAdvised ==
    capture.response \in {ArrayPayload(<<>>), NullPayload,
                          ObjectPayload(EmptyObject)}
        => /\ capture.pc = "alert" /\ alert = "empty_analysis"
           /\ capture.saved = {}

\* C6: when startAnalysis has failed, none of the records it saved before
\* the failure is in the store.
CaptureFailureAtomic ==
    capture.pc = "alert" /\ alert = "analysis_failed"
        => capture.saved \cap DOMAIN db.rows = {}

\* A step in which importQuestions has written one record of the file.
ImportWrote == importing.pc = "writing" /\ importing'.k = importing.k + 1

\* C7: each record importQuestions writes leaves every record that was in
\* the store as it was and adds exactly one record, under an id the store
\* assigns, holding the fields of the input apart from its id.
ImportNeverOverwrites ==
    [][ImportWrote =>
          /\ \A id \in DOMAIN db.rows :
                id \in DOMAIN db'.rows /\ db'.rows[id] = db.rows[id]
          /\ \E new \in DOMAIN db'.rows \ DOMAIN db.rows :
                /\ DOMAIN db'.rows = DOMAIN db.rows \cup {new}
                /\ db'.rows[new].id = Some(new)
                /\ Fields(db'.rows[new])
                     = Fields(importing.file.items[importing.k])]_vars
\* A record of the file that carried the id of a record in the store has
\* been written, and that record of the store is still there.
ImportedOverExistingId ==
    /\ importing.pc \in {"writing", "alert"}
    /\ \E i \in 1..(importing.k - 1) :
          /\ IsDef(importing.file.items[i].id)
          /\ importing.file.items[i].id[1] \in DOMAIN db.rows \ importing.written

\* The file is not parseable or what it holds is no sequence.
MalformedFile(file) == JSONparseThrows(file) \/ file.kind # "array"

\* C8: when the file is not parseable or holds no sequence, importData ends
\* in the failure alert, not in the success alert, and writes nothing to
\* the store.
MalformedImportFails ==
    [][importing.pc = "reading" /\ MalformedFile(importing.file)
          /\ importing'.pc # "reading"
       => /\ alert' = "import_failed"
          /\ importing'.pc = "alert" /\ importing'.written = {}
          /\ db' = db]_vars
\* importData has ended in the failure alert over such a file.
MalformedImportRefused ==
    /\ importing.pc = "alert" /\ MalformedFile(importing.file)
    /\ alert = "import_failed"

\* C9: the analysis of every record an import has written is of the
\* canonical shape when it is read back from the store.
ImportedAnalysesCanonical ==
    \A id \in importing.written \cap DOMAIN db.rows :
        IsCanonical(db.rows[id].analysis)

\* C10: analyzeQuestionImage returns one analysis for each element of an
\* array payload and one analysis for a payload that is a single object, in
\* the order of the candidates, and each analysis reads like its candidate
\* everywhere but at logicEngine.mermaidCode.
CandidatesKeptInOrder ==
    capture.pc \in {"saving", "loading"} =>
        LET raw == capture.response
            candidates == IF raw.kind = "array" THEN raw.items
                          ELSE <<raw.value>>
        IN  /\ raw.kind \in {"array", "object"}
            /\ Len(capture.analyses) = Len(candidates)
            /\ \A i \in 1..Len(candidates) :
                  SameButMermaidCode(capture.analyses[i], candidates[i][1])
\* Two candidates have come back as two analyses, the first with its
\* mermaid code changed and its difficulty kept.
TwoCandidatesSanitized ==
    /\ capture.pc = "saving" /\ capture.response.kind = "array"
    /\ Len(capture.analyses) = 2
    /\ capture.analyses[1] # capture.response.items[1][1]
    /\ IsDef(ReadLogicEngine(capture.analyses[1], "difficulty"))

\* C11: when every analysis of a capture has been saved, the capture has
\* been given as many ids as there are analyses, and the records under
\* these ids, in the order of the ids, hold the analyses in their order,
\* each with the subject that was selected and the image that was
\* previewed when the analysis was started.
OneRecordPerAnalysis ==
    /\ capture.pc # "idle" =>
          /\ selectedSubject = Some(capture.subject)
          /\ tempImage = Some(capture.image)
    /\ capture.pc = "loading" =>
          /\ capture.saved \subseteq DOMAIN db.rows
          /\ Cardinality(capture.saved) = Len(capture.analyses)
          /\ LET records == InKeyOrder(db.rows, capture.saved)
             IN  \A i \in 1..Len(capture.analyses) :
                    /\ records[i].analysis = capture.analyses[i]
                    /\ records[i].subject = capture.subject
                    /\ records[i].image = capture.image
\* A capture of two analyses has saved both.
TwoAnalysesSaved ==
    /\ capture.pc = "loading" /\ Len(capture.analyses) = 2
    /\ capture.analyses[1] # capture.analyses[2]

\* The records the running capture has saved.
CapturedRecords == {db.rows[id] : id \in capture.saved \cap DOMAIN db.rows}

\* The title the normalizer is to give: the primary point, for which the
\* first of the older knowledgePoints stands in, else the first tag, else
\* the title of the candidate, else the untitled literal.
TitleByPrecedence(analysis) ==
    IF TruthyStr(PrimaryPointOf(analysis)) THEN PrimaryPointOf(analysis)[1]
    ELSE IF TruthyStr(FirstKnowledgePointOf(analysis))
         THEN FirstKnowledgePointOf(analysis)[1]
    ELSE IF TruthyStr(FirstTagOf(analysis)) THEN FirstTagOf(analysis)[1]
    ELSE IF TruthyStr(analysis.title) THEN analysis.title[1]
    ELSE Untitled

\* C12: the title of every record a capture creates is the primary point
\* of its analysis (the first of the older knowledgePoints standing in for
\* it), else its first tag, else its title, else the untitled literal, and
\* so is never empty.
TitlePrecedence ==
    \A q \in CapturedRecords :
        q.title = TitleByPrecedence(q.analysis) /\ q.title # ""

\* C13: every record a capture creates has its tags defined, a sequence
\* that may be empty, and a title.
TagsAndTitleDefined ==
    \A q \in CapturedRecords :
        IsDef(q.tags) /\ "tags" \notin q.undefinedKeys /\ q.title # ""

\* The primary point by precedence: knowledgeMap.primaryPoint, else the
\* first of the older knowledgePoints, else the uncategorized literal.
PrimaryPointByPrecedence(analysis) ==
    IF IsDef(PrimaryPointOf(analysis)) THEN PrimaryPointOf(analysis)[1]
    ELSE IF IsDef(FirstKnowledgePointOf(analysis))
         THEN FirstKnowledgePointOf(analysis)[1]
         ELSE Uncategorized

\* C14: every record of the store holds the primary point by precedence
\* in knowledgeMap.primaryPoint, and the list item, the detail view and
\* the share poster all show that value.
PrimaryPointAtBoundary ==
    \A id \in DOMAIN db.rows :
        LET q == db.rows[id]
            point == PrimaryPointByPrecedence(q.analysis)
        IN  /\ PrimaryPointOf(q.analysis) = Some(point)
            /\ ListPrimaryPoint(q) = point
            /\ DetailPrimaryPoint(q) = point
            /\ SharePrimaryPoint(q) = point

\* The difficulty by precedence: logicEngine.difficulty, else the
\* difficulty at the top level, else 3; brought into 1..5.
DifficultyByPrecedence(analysis) ==
    LET d == IF IsDef(LogicDifficultyOf(analysis))
             THEN LogicDifficultyOf(analysis)[1]
             ELSE IF IsDef(analysis.difficulty) THEN analysis.difficulty[1]
                  ELSE 3
    IN  IF d < 1 THEN 1 ELSE IF d > 5 THEN 5 ELSE d

\* C15: for every record of the store the stars of the detail view and
\* the dots of the share poster both show the difficulty by precedence,
\* which lies in 1..5.
DifficultyClamped ==
    \A id \in DOMAIN db.rows :
        LET q == db.rows[id]
            difficulty == DifficultyByPrecedence(q.analysis)
        IN  /\ DetailStars(q) = difficulty
            /\ ShareDots(q) = difficulty

\* The candidates of the payload startAnalysis has received, and the
\* mermaid code of the i-th of them and of the i-th analysis.
RawCandidates ==
    IF capture.response.kind = "array" THEN capture.response.items
    ELSE <<capture.response.value>>
RawMermaid(i) == ReadLogicEngine(RawCandidates[i][1], "mermaidCode")
CleanMermaid(i) == ReadLogicEngine(capture.analyses[i], "mermaidCode")
Returned == capture.pc \in {"saving", "loading"}

AllWhitespace(s) == \A i \in 1..Len(s) : IsWhitespace(s[i])
\* t is s without the whitespace at its two ends.
IsTrimOf(t, s) ==
    /\ t = <<>> \/ (~IsWhitespace(t[1]) /\ ~IsWhitespace(t[Len(t)]))
    /\ \E i \in 1..(Len(s) + 1) :
          /\ i + Len(t) - 1 <= Len(s)
          /\ t = SubSeq(s, i, i + Len(t) - 1)
          /\ AllWhitespace(SubSeq(s, 1, i - 1))
          /\ AllWhitespace(SubSeq(s, i + Len(t), Len(s)))
\* s, whitespace at its ends aside, opens with a fence and closes with a fence.
IsFencedBlock(s) ==
    \E t \in {SubSeq(s, i, j) : i, j \in 1..Len(s)} :
        IsTrimOf(t, s) /\ Len(t) >= 2 /\ t[1] = Fence /\ t[Len(t)] = Fence
\* body is what the fenced block s encloses: the text between the two
\* fences without the language tag that may follow the opening fence.
IsEnclosedBy(body, s) ==
    \E t \in {SubSeq(s, i, j) : i, j \in 1..Len(s)} :
        /\ IsTrimOf(t, s) /\ Len(t) >= 2
        /\ LET inner == SubSeq(t, 2, Len(t) - 1)
               untagged == IF inner # <<>> /\ ~IsWhitespace(inner[1])
                           THEN Tail(inner) ELSE inner
           IN  IsTrimOf(body, untagged)

\* C16: when the mermaid code of a candidate is a fenced block, with any
\* language tag or none, the mermaid code of the analysis is exactly what
\* the block encloses, without the fences, the tag and the whitespace
\* around it.
FencesStripped ==
    Returned =>
        \A i \in 1..Len(capture.analyses) :
            IsDef(RawMermaid(i)) /\ IsFencedBlock(RawMermaid(i)[1])
                => /\ IsDef(CleanMermaid(i))
                   /\ IsEnclosedBy(CleanMermaid(i)[1], RawMermaid(i)[1])

\* C17: the mermaid code of every analysis returned is a defined string:
\* the empty string when the candidate has none or an empty one, and the
\* code of the candidate without the whitespace at its ends when that code
\* holds no fence.
MermaidPassThrough ==
    Returned =>
        \A i \in 1..Len(capture.analyses) :
            /\ IsDef(CleanMermaid(i))
            /\ ~IsDef(RawMermaid(i)) \/ RawMermaid(i)[1] = <<>>
                  => CleanMermaid(i) = Some(<<>>)
            /\ IsDef(RawMermaid(i))
                  /\ (\A k \in 1..Len(RawMermaid(i)[1]) : RawMermaid(i)[1][k] # Fence)
                  => IsTrimOf(CleanMermaid(i)[1], RawMermaid(i)[1])
\* Code with whitespace around it and no fence has come back trimmed.
PaddedCodeTrimmed ==
    /\ Returned
    /\ RawMermaid(1) = Some(PaddedMermaid)
    /\ CleanMermaid(1) = Some(PlainMermaid)

\* C18: the step in which startAnalysis finds no analyses saves nothing,
\* shows the advisory and leaves the view and the captured image as they
\* are; the step that closes the advisory leaves them too, and resets
\* isAnalyzing.
EmptyAnalysisCreatesNothing ==
    [][/\ capture.pc = "analyzing" /\ alert' = "empty_analysis"
          => /\ db' = db /\ capture'.saved = {} /\ capture'.pc = "alert"
             /\ currentView' = currentView
             /\ IsDef(tempImage) /\ tempImage' = tempImage
       /\ alert = "empty_analysis" /\ alert' # alert
          => /\ db' = db /\ capture'.pc = "idle"
             /\ currentView' = currentView
             /\ IsDef(tempImage) /\ tempImage' = tempImage
             /\ isAnalyzing' = FALSE]_vars
\* The advisory is on screen over the preview.
AdvisoryOverPreview ==
    /\ capture.pc = "alert" /\ alert = "empty_analysis"
    /\ capture.response = ArrayPayload(<<>>)
    /\ currentView = "upload-preview" /\ IsDef(tempImage)

\* C19: the step in which the analysis call fails saves nothing, shows the
\* failure alert and leaves the view and the captured image as they are;
\* closing the alert ends startAnalysis; and a call of the analysis begins
\* only with a click on the button of the preview, never by itself.
AnalysisFailureSurfaced ==
    [][/\ capture.pc = "analyzing" /\ alert' = "analysis_failed"
          => /\ db' = db /\ capture'.saved = {} /\ capture'.pc = "alert"
             /\ currentView' = currentView
             /\ IsDef(tempImage) /\ tempImage' = tempImage
       /\ alert = "analysis_failed" /\ alert' # alert
          => /\ db' = db /\ capture'.pc = "idle"
             /\ currentView' = currentView
             /\ IsDef(tempImage) /\ tempImage' = tempImage
             /\ isAnalyzing' = FALSE
       /\ capture'.pc = "analyzing" /\ capture.pc # "analyzing"
          => /\ capture.pc = "idle" /\ CanClick
             /\ currentView = "upload-preview"]_vars
\* The analysis call has failed and the failure alert is on screen.
AnalysisCallFailed ==
    /\ capture.pc = "alert" /\ alert = "analysis_failed"
    /\ capture.response.kind = "none" /\ capture.saved = {}
    /\ IsDef(tempImage)

\* C20: when handleDelete's call of deleteQuestion has ended, every record
\* with another id is in the store as it was and no record has come in;
\* when deleteQuestion has answered, no record has the id; and when no
\* record had the id, the store is as it was.
DeleteIdempotentAndLocal ==
    [][IsDef(deleting) /\ deleting' = None =>
          LET id == deleting[1].id
          IN  /\ DOMAIN db'.rows \subseteq DOMAIN db.rows
              /\ \A other \in DOMAIN db.rows \ {id} :
                    other \in DOMAIN db'.rows /\ db'.rows[other] = db.rows[other]
              /\ loads' # loads => id \notin DOMAIN db'.rows
              /\ id \notin DOMAIN db.rows => db' = db]_vars
\* deleteQuestion has answered for an id that was not in the store, while
\* the store held a record.
DeletedMissingId == issued.deletedMissing /\ DOMAIN db.rows # {}


\* C21: when clearAllQuestions has answered, getAllQuestions and
\* getQuestionsBySubject of every subject are empty; a save that returns,
\* after a clear as at any other time, returns an id that no record of the
\* store has and stores the record under it; and in every state each
\* record of the store carries its own key as id, so that no two records
\* share an id, also across a clear.
ClearThenSave ==
    [][/\ clearing = "busy" /\ clearing' = "alert"
          => /\ getAllQuestions(db') = <<>>
             /\ \A S \in SUBJECTS : getQuestionsBySubject(db', S) = <<>>
       /\ SaveReturns
          => /\ issued'.last \notin DOMAIN db.rows
             /\ issued'.last \in DOMAIN db'.rows
       /\ \A id \in DOMAIN db.rows : db.rows[id].id = Some(id)
       /\ \A id \in DOMAIN db'.rows : db'.rows[id].id = Some(id)]_vars
\* A save has returned after a clear: its record is in the store and a
\* record with a lower id, which only a clear removes here, is gone.
SavedAfterClear ==
    /\ issued.last \in DOMAIN db.rows
    /\ \E k \in 1..issued.last : k \notin DOMAIN db.rows


\* The calls of the store that have been made and have not answered yet:
\* the pending reads of loadQuestions, the delete of handleDelete, the save
\* or the awaited read of startAnalysis, the clear, the read of exportData
\* and the write of importData.
StoreOperationsInFlight ==
    Len(loads)
    + (IF IsDef(deleting) THEN 1 ELSE 0)
    + (IF capture.pc \in {"saving", "loading"} THEN 1 ELSE 0)
    + (IF clearing = "busy" THEN 1 ELSE 0)
    + (IF exporting THEN 1 ELSE 0)
    + (IF importing.pc = "writing" THEN 1 ELSE 0)
\* C22: in every reachable state at most one call of the store is in
\* flight.
AtMostOneStoreOperation == StoreOperationsInFlight <= 1


DisplaysNewestFirst(list, d, S) ==
    LET data == getQuestionsBySubject(d, S)
    IN  /\ Len(list) = Len(data)
        /\ \A i \in 1..Len(data) :
              Cardinality({j \in 1..Len(list) : list[j] = data[i]})
                  = Cardinality({j \in 1..Len(data) : data[j] = data[i]})
        /\ \A i \in 1..(Len(list) - 1) :
              list[i].createdAt >= list[i + 1].createdAt
DetailShowsLiveRecord ==
    currentView = "detail" =>
        /\ IsDef(selectedQuestion)
        /\ IsDef(selectedQuestion[1].id)
        /\ selectedQuestion[1].id[1] \in DOMAIN db.rows
        /\ db.rows[selectedQuestion[1].id[1]] = selectedQuestion[1]


TagsOf(q) == IF IsDef(q.tags) THEN q.tags[1] ELSE <<>>
ToBeKept(q) ==
    /\ \/ includes(toLowerCase(Chars(q.title)), toLowerCase(searchQuery))
       \/ \E k \in 1..Len(TagsOf(q)) :
             includes(toLowerCase(Chars(TagsOf(q)[k])), toLowerCase(searchQuery))
    /\ IsDef(selectedTag) =>
          \E k \in 1..Len(TagsOf(q)) : TagsOf(q)[k] = selectedTag[1]
\* C25: in every state the filtered list is computed and holds exactly the
\* loaded records to be kept, in the order of the loaded list; the loaded
\* list itself when the query is empty and no tag is selected.
FilterCorrect ==
    /\ filteredQuestions = [threw |-> FALSE, list |-> SelectSeq(questions, ToBeKept)]
    /\ searchQuery = <<>> /\ selectedTag = None
          => filteredQuestions.list = questions
\* The same for the lists whose records all have tags.
FilterCorrectOnTagged ==
    (\A i \in 1..Len(questions) : IsDef(questions[i].tags)) => FilterCorrect
\* The filter has left out one of two loaded records.
FilteredPart ==
    /\ Len(questions) = 2 /\ ~filteredQuestions.threw
    /\ Len(filteredQuestions.list) = 1


\* C26: whenever no loadQuestions is pending and the list of a selected
\* subject is on screen, every record of the displayed list has that
\* subject.
ListMatchesSubject ==
    loads = <<>> /\ IsDef(selectedSubject) /\ Mounted
        => \A i \in 1..Len(questions) :
              questions[i].subject = selectedSubject[1]


\* The list begins with the greeting and alternates from there.
AlternatesFromGreeting ==
    /\ messages[1] = Greeting
    /\ \A i \in 1..Len(messages) :
          messages[i].role = IF i % 2 = 1 THEN "assistant" ELSE "user"
\* C29: messages only grows, by one message at its end in a step; a user
\* message is appended only by a handleSend whose input does not trim to
\* nothing and while isLoading is false, it is the trimmed input, and
\* isLoading is true after it; an assistant message is appended only while
\* isLoading is true, it is the reply or one of the two fixed texts, and
\* isLoading is false after it; in every state the list begins with the
\* greeting, alternates strictly, and ends with a user message exactly when
\* isLoading is true; and every accepted send is followed by its assistant
\* message: isLoading does not stay true.
ChatTurnProtocol ==
    /\ [][/\ \/ messages' = messages
             \/ /\ Len(messages') = Len(messages) + 1
                /\ SubSeq(messages', 1, Len(messages)) = messages
          /\ Len(messages') > Len(messages)
                /\ messages'[Len(messages')].role = "user"
             => /\ Trim(input) # <<>> /\ ~isLoading
                /\ messages'[Len(messages')].content = Trim(input)
                /\ isLoading'
          /\ Len(messages') > Len(messages)
                /\ messages'[Len(messages')].role = "assistant"
             => /\ isLoading /\ ~isLoading'
                /\ messages'[Len(messages')].content
                      \in {<<"answer">>, NoTextReply, Apology}
          /\ isLoading' # isLoading => messages' # messages]_vars
    /\ [](/\ AlternatesFromGreeting
          /\ isLoading <=> messages[Len(messages)].role = "user")
    /\ [](isLoading => <>~isLoading)
\* Two turns are over: the first was answered with the apology, the second
\* with the reply.
TwoTurnsDone ==
    /\ Len(messages) = 5 /\ ~isLoading
    /\ messages[3].content = Apology
    /\ messages[5].content = <<"answer">>


\* C28: whenever isAnalyzing is true, a handleFileUpload or a startAnalysis
\* is in flight, and isAnalyzing becomes false again, whatever the outcome
\* of the handler.
BusyFlagReleased ==
    /\ [](isAnalyzing => uploading # "idle" \/ capture.pc # "idle")
    /\ [](isAnalyzing => <>~isAnalyzing)
\* A startAnalysis has saved a record and has ended: the flag is down, the
\* preview is gone.
ReleasedAfterSave ==
    /\ ~isAnalyzing /\ capture.pc = "idle" /\ uploading = "idle"
    /\ issued.last > 0 /\ tempImage = None /\ currentView = "subject"

=============================================================================
